---- MODULE Spec2Model ----
(***************************************************************************)
(* Model of nextgen/scripts/distributed_nextgen_pipeline.py: the cluster   *)
(* worker orchestrator (main, start_workers, run_analysis, stop_workers)   *)
(* running against a batch scheduler (bcbio.distributed.lsf).              *)
(***************************************************************************)
EXTENDS Integers, Sequences, FiniteSets, TLC

\* Largest value of config["distributed"]["num_workers"] explored.
MaxWorkers == 2

\* Worker jobs plus the single driver job.
MaxJobs == MaxWorkers + 1

Handles == 1..MaxJobs

NoJob == 0

NoExc == "none"

JobStates == {"unsubmitted", "pending", "running", "finished", "failed", "cancelled"}

VARIABLES
    config,         \* the loaded configuration (num_cores, cluster_platform, num_workers)
    pc,             \* position of the single thread of control
    jobs,           \* scheduler side: state of every job id
    nextId,         \* scheduler side: next job id submit_job hands out
    submitted,      \* start_workers: the list comprehension built so far
    jobids,         \* main: the local jobids once start_workers has returned
    driver,         \* run_analysis: the local jobid (NoJob before submission)
    idx,            \* stop_workers: position of the for loop in jobids (1-based)
    raised,         \* exception raised inside main's try block, pending over the finally
    exitExc,        \* exception main terminated with (NoExc: normal return)
    stopped,        \* history: handles presented to stop_job, in call order
    stopErr,        \* history: outcome of each stop_job call (NoExc or the error)
    workerSubmits,  \* history: number of submit_job calls made by start_workers
    seenWorkers,    \* history: are_running(jobids) was observed true in start_workers
    startSlept,     \* history: start_workers executed time.sleep
    driverSeenRunning, \* history: are_running([jobid]) observed true in run_analysis
    driverSeenLeft, \* history: are_running([jobid]) observed false by the finish loop
    calls,          \* history: number of stop_workers invocations started
    driverSubmits,  \* history: number of submit_job calls made by run_analysis
    topIn,          \* toplevel: remote_info, config and filesystem facts of one request
    tpc,            \* toplevel: position of analyze_and_upload
    stages,         \* toplevel history: stages entered, in order
    launched,       \* toplevel history: command lines given to subprocess.check_call
    topExc          \* toplevel: exception analyze_and_upload ended with

vars == <<config, pc, jobs, nextId, submitted, jobids, driver, idx, raised,
          exitExc, stopped, stopErr, workerSubmits, seenWorkers, startSlept,
          driverSeenRunning, driverSeenLeft, calls, driverSubmits,
          topIn, tpc, stages, launched, topExc>>

\* The state of toplevel.analyze_and_upload.
topVars == <<topIn, tpc, stages, launched, topExc>>

schedVars == <<jobs, nextId>>
histVars == <<stopped, stopErr, workerSubmits, seenWorkers, startSlept, driverSeenRunning,
              driverSeenLeft, calls>>

Range(s) == {s[i] : i \in 1..Len(s)}

----------------------------------------------------------------------------
\* The scheduler adapter (bcbio.distributed.lsf)

\* are_running(jobids): true only if every handle is in the running state.
are_running(handles) == \A h \in handles : jobs[h] = "running"

\* submit_job: one job enters the pending queue and its id is returned.
submit_job_ok(h) ==
    /\ h = nextId
    /\ h \in Handles
    /\ jobs' = [jobs EXCEPT ![h] = "pending"]
    /\ nextId' = nextId + 1

\* stop_job succeeds only on a job the scheduler still holds.
stop_job_can_succeed(h) == jobs[h] \in {"pending", "running"}

\* Errors a stop_job call can end with: the cancellation error of the
\* scheduler, or an interrupt delivered while the call blocks.
\* (Interrupts are delivered at the blocking points: the scheduler calls and
\* time.sleep.)
StopJobErrors == {"CancellationError", "KeyboardInterrupt"}

----------------------------------------------------------------------------
\* Exception handling of the script

\* stop_workers, "except: pass": the exception leaving the try statement.
StopWorkersExceptMutant(e) == e
StopWorkersExcept(e) == NoExc

\* main, "finally": the exception main ends with once stop_workers returned.
MainFinallyMutant(pending) == NoExc
MainFinally(pending) == pending

\* Exit status of the script: an uncaught exception ends the interpreter with 1.
ExitStatus == IF exitExc = NoExc THEN 0 ELSE 1

----------------------------------------------------------------------------
\* analyze_and_upload is not running: the script was started on its own.
TopIdle ==
    /\ topIn = [num_cores |-> "messaging", has_fc_dir |-> TRUE, fc_exists |-> TRUE,
                has_dist_prog |-> FALSE, has_run_yaml |-> FALSE,
                yaml_exists |-> FALSE]
    /\ tpc = "idle"
    /\ stages = <<>>
    /\ launched = <<>>
    /\ topExc = NoExc

Init ==
    /\ config \in [num_cores : {"messaging", "1"},
                   cluster_platform : {"lsf", "sge"},
                   num_workers : 0..MaxWorkers]
    /\ pc = "main"
    /\ jobs = [h \in Handles |-> "unsubmitted"]
    /\ nextId = 1
    /\ submitted = <<>>
    /\ jobids = <<>>
    /\ driver = NoJob
    /\ idx = 1
    /\ raised = NoExc
    /\ exitExc = NoExc
    /\ stopped = <<>>
    /\ stopErr = <<>>
    /\ workerSubmits = 0
    /\ seenWorkers = FALSE
    /\ startSlept = FALSE
    /\ driverSeenRunning = FALSE
    /\ driverSeenLeft = FALSE
    /\ calls = 0
    /\ driverSubmits = 0
    /\ TopIdle

\* main, lines 25-29: load_config, the assert, the platform lookup.
MainStart ==
    /\ pc = "main"
    /\ \/ /\ config.num_cores # "messaging"
          /\ pc' = "done"
          /\ exitExc' = "AssertionError"
       \/ /\ config.num_cores = "messaging"
          /\ config.cluster_platform # "lsf"
          /\ pc' = "done"
          /\ exitExc' = "KeyError"
       \/ /\ config.num_cores = "messaging"
          /\ config.cluster_platform = "lsf"
          /\ pc' = IF config.num_workers = 0 THEN "wait_workers" ELSE "submit_workers"
          /\ exitExc' = exitExc
    /\ UNCHANGED <<topVars, driverSubmits, config, schedVars, submitted, jobids, driver, idx, raised, histVars>>

\* start_workers, lines 41-42: one submit_job of the list comprehension.
\* The call is outside main's try: an exception ends main at once.
SubmitWorker ==
    /\ pc = "submit_workers"
    /\ Len(submitted) < config.num_workers
    /\ workerSubmits' = workerSubmits + 1
    /\ \/ /\ submit_job_ok(nextId)
          /\ submitted' = Append(submitted, nextId)
          /\ pc' = IF Len(submitted) + 1 = config.num_workers
                   THEN "wait_workers" ELSE "submit_workers"
          /\ exitExc' = exitExc
       \/ /\ pc' = "done"
          /\ exitExc' = "SubmissionError"
          /\ UNCHANGED <<schedVars, submitted>>
    /\ UNCHANGED <<topVars, driverSubmits, config, jobids, driver, idx, raised, stopped, stopErr, seenWorkers,
                   startSlept, driverSeenRunning, driverSeenLeft, calls>>

\* What start_workers returns (line 45).
StartWorkersResultMutant == IF submitted = <<>> THEN <<>> ELSE Tail(submitted)
StartWorkersResult == submitted

\* The loop test of start_workers (line 43).
WorkersReadyMutant == \E h \in Range(submitted) : jobs[h] = "running"
WorkersReady == are_running(Range(submitted))

\* start_workers, lines 43-45: one poll of the wait loop, then sleep or return.
PollWorkers ==
    /\ pc = "wait_workers"
    /\ \/ /\ pc' = "done"
          /\ exitExc' = "PollError"
          /\ UNCHANGED <<jobids, seenWorkers, startSlept>>
       \/ /\ WorkersReady
          /\ jobids' = StartWorkersResult
          /\ seenWorkers' = are_running(Range(submitted))
          /\ pc' = "submit_driver"
          /\ UNCHANGED <<exitExc, startSlept>>
       \/ /\ ~WorkersReady
          /\ startSlept' = TRUE
          /\ \/ /\ pc' = pc
                /\ exitExc' = exitExc
             \/ /\ pc' = "done"
                /\ exitExc' = "KeyboardInterrupt"
          /\ UNCHANGED <<jobids, seenWorkers>>
    /\ UNCHANGED <<topVars, driverSubmits, config, schedVars, submitted, driver, idx, raised, stopped,
                   stopErr, workerSubmits, driverSeenRunning, driverSeenLeft, calls>>

\* main, lines 34-36: control enters the finally block and calls stop_workers.
EnterCleanup(e) ==
    /\ raised' = e
    /\ pc' = "cleanup"
    /\ idx' = 1
    /\ calls' = calls + 1

\* run_analysis, line 52: submit the driver job.
SubmitDriver ==
    /\ pc = "submit_driver"
    /\ driverSubmits' = driverSubmits + 1
    /\ \/ /\ submit_job_ok(nextId)
          /\ driver' = nextId
          /\ pc' = "wait_driver_start"
          /\ UNCHANGED <<raised, idx, calls>>
       \/ /\ EnterCleanup("SubmissionError")
          /\ UNCHANGED <<schedVars, driver>>
    /\ UNCHANGED <<topVars, config, submitted, jobids, exitExc, stopped, stopErr,
                   workerSubmits, seenWorkers, startSlept, driverSeenRunning, driverSeenLeft>>

\* The loop test of the start wait (line 54): true leaves the loop.
DriverStartedMutant == TRUE
DriverStarted == are_running({driver})

\* The loop test of the finish wait (line 57): true leaves the loop.
DriverLeftMutant == TRUE
DriverLeft == ~are_running({driver})

\* run_analysis, lines 54-55: wait for the job to start.
PollDriverStart ==
    /\ pc = "wait_driver_start"
    /\ \/ /\ EnterCleanup("PollError")
          /\ UNCHANGED driverSeenRunning
       \/ /\ DriverStarted
          /\ driverSeenRunning' = are_running({driver})
          /\ pc' = "wait_driver_finish"
          /\ UNCHANGED <<raised, idx, calls>>
       \/ /\ ~DriverStarted
          /\ \/ /\ pc' = pc
                /\ UNCHANGED <<raised, idx, calls>>
             \/ EnterCleanup("KeyboardInterrupt")
          /\ UNCHANGED driverSeenRunning
    /\ UNCHANGED <<topVars, driverSubmits, config, schedVars, submitted, jobids, driver, exitExc, stopped,
                   stopErr, workerSubmits, seenWorkers, startSlept, driverSeenLeft>>

\* run_analysis, lines 57-58: wait for the job to finish; returning None
\* leaves the try block normally.
PollDriverFinish ==
    /\ pc = "wait_driver_finish"
    /\ \/ /\ EnterCleanup("PollError")
          /\ UNCHANGED driverSeenLeft
       \/ /\ DriverLeft
          /\ driverSeenLeft' = ~are_running({driver})
          /\ EnterCleanup(NoExc)
       \/ /\ ~DriverLeft
          /\ \/ /\ pc' = pc
                /\ UNCHANGED <<raised, idx, calls>>
             \/ EnterCleanup("KeyboardInterrupt")
          /\ UNCHANGED driverSeenLeft
    /\ UNCHANGED <<topVars, driverSubmits, config, schedVars, submitted, jobids, driver, exitExc, stopped,
                   stopErr, workerSubmits, seenWorkers, startSlept, driverSeenRunning>>

\* main, line 36: the handle list main passes to stop_workers.
CleanupHandlesMutant == IF driver = NoJob THEN jobids ELSE Append(jobids, driver)
CleanupHandles == jobids

\* stop_workers, line 61: the handle the for loop binds in iteration idx.
LoopJobidReversed == CleanupHandles[Len(CleanupHandles) + 1 - idx]
LoopJobidStuck == CleanupHandles[1]
LoopJobid == CleanupHandles[idx]

\* stop_workers, lines 61-65: one iteration of the for loop.
StopJob ==
    /\ pc = "cleanup"
    /\ idx <= Len(CleanupHandles)
    /\ LET h == LoopJobid IN
       \E e \in StopJobErrors \cup {NoExc} :
          /\ (e = NoExc) => stop_job_can_succeed(h)
          /\ jobs' = IF e = NoExc THEN [jobs EXCEPT ![h] = "cancelled"] ELSE jobs
          /\ stopped' = Append(stopped, h)
          /\ stopErr' = Append(stopErr, e)
          /\ idx' = IF StopWorkersExcept(e) = NoExc THEN idx + 1 ELSE idx
          /\ pc' = IF StopWorkersExcept(e) = NoExc THEN pc ELSE "done"
          /\ exitExc' = IF StopWorkersExcept(e) = NoExc THEN exitExc
                                                       ELSE StopWorkersExcept(e)
    /\ UNCHANGED <<topVars, driverSubmits, config, nextId, submitted, jobids, driver, raised, workerSubmits,
                   seenWorkers, startSlept, driverSeenRunning, driverSeenLeft, calls>>

\* stop_workers returns; main leaves the finally block (line 36) and ends.
StopWorkersReturn ==
    /\ pc = "cleanup"
    /\ idx > Len(CleanupHandles)
    /\ pc' = "done"
    /\ exitExc' = MainFinally(raised)
    /\ UNCHANGED <<topVars, driverSubmits, config, schedVars, submitted, jobids, driver, idx, raised, histVars>>

\* The scheduler starts a pending job.
JobStart ==
    \E h \in Handles :
        /\ jobs[h] = "pending"
        /\ jobs' = [jobs EXCEPT ![h] = "running"]
        /\ UNCHANGED <<topVars, driverSubmits, config, pc, nextId, submitted, jobids, driver, idx, raised,
                       exitExc, histVars>>

\* A running job leaves the running state, as succeeded or as failed.
JobExit ==
    \E h \in Handles, s \in {"finished", "failed"} :
        /\ jobs[h] = "running"
        /\ jobs' = [jobs EXCEPT ![h] = s]
        /\ UNCHANGED <<topVars, driverSubmits, config, pc, nextId, submitted, jobids, driver, idx, raised,
                       exitExc, histVars>>

Next ==
    \/ MainStart
    \/ SubmitWorker
    \/ PollWorkers
    \/ SubmitDriver
    \/ PollDriverStart
    \/ PollDriverFinish
    \/ StopJob
    \/ StopWorkersReturn
    \/ JobStart
    \/ JobExit

Spec == Init /\ [][Next]_vars

TypeOK ==
    /\ pc \in {"main", "submit_workers", "wait_workers", "submit_driver",
               "wait_driver_start", "wait_driver_finish", "cleanup", "done"}
    /\ jobs \in [Handles -> JobStates]
    /\ nextId \in 1..(MaxJobs + 1)
    /\ driver \in Handles \cup {NoJob}
    /\ idx \in 1..(MaxWorkers + 2)
    /\ calls \in 0..2
    /\ driverSubmits \in 0..1

----------------------------------------------------------------------------
\* stop_workers called twice on the same handle set (the cleanup logic run
\* again on jobs it has already been offered).

\* A handle set as start_workers returns it: ids 1..n in submission order,
\* every job running (start_workers returns on that observation); JobExit
\* then takes them through the rest of their life.
InitTwice ==
    /\ \E n \in 0..MaxWorkers :
          /\ jobids = [i \in 1..n |-> i]
          /\ jobs = [h \in Handles |-> IF h <= n THEN "running" ELSE "unsubmitted"]
          /\ nextId = n + 1
          /\ workerSubmits = n
          /\ config = [num_cores |-> "messaging", cluster_platform |-> "lsf",
                       num_workers |-> n]
    /\ submitted = jobids
    /\ pc = "cleanup"
    /\ driver = NoJob
    /\ idx = 1
    /\ raised = NoExc
    /\ exitExc = NoExc
    /\ stopped = <<>>
    /\ stopErr = <<>>
    /\ seenWorkers = TRUE
    /\ startSlept = FALSE
    /\ driverSeenRunning = FALSE
    /\ driverSeenLeft = FALSE
    /\ calls = 1
    /\ driverSubmits = 0
    /\ TopIdle

\* The first stop_workers call returned; call stop_workers(cluster, jobids) again.
StopWorkersAgain ==
    /\ pc = "cleanup"
    /\ idx > Len(CleanupHandles)
    /\ calls = 1
    /\ calls' = 2
    /\ idx' = 1
    /\ UNCHANGED <<topVars, driverSubmits, config, pc, schedVars, submitted, jobids, driver, raised, exitExc,
                   stopped, stopErr, workerSubmits, seenWorkers, startSlept,
                   driverSeenRunning, driverSeenLeft>>

\* The second stop_workers call returned.
StopWorkersReturnTwice ==
    /\ calls = 2
    /\ StopWorkersReturn

NextTwice ==
    \/ StopJob
    \/ StopWorkersAgain
    \/ StopWorkersReturnTwice
    \/ JobExit

SpecTwice == InitTwice /\ [][NextTwice]_vars

----------------------------------------------------------------------------
\* Properties

\* start_workers has returned its handles to main.
StartWorkersReturned ==
    pc \in {"submit_driver", "wait_driver_start", "wait_driver_finish", "cleanup"}
        \/ calls >= 1

\* Number of times handle h was presented to stop_job.
StopCount(h) == Cardinality({i \in 1..Len(stopped) : stopped[i] = h})

\* C1: once start_workers has returned the worker handles, then whatever the
\* driver outcome (normal return, submit_job raised, a poll raised), main has
\* called stop_job exactly once for each returned handle when it exits.
C1_CleanupOncePerHandle ==
    (pc = "done" /\ StartWorkersReturned) =>
        /\ raised \in {NoExc, "SubmissionError", "PollError", "KeyboardInterrupt"}
        /\ Len(stopped) = Len(jobids)
        /\ \A h \in Range(jobids) : StopCount(h) = 1

C1_Witness ==
    /\ pc = "done"
    /\ StartWorkersReturned
    /\ raised = "PollError"
    /\ Len(jobids) >= 2
    /\ \E i \in 1..Len(stopErr) : stopErr[i] # NoExc

\* C2: when the k-th worker submission (k >= 2) raises during pool start,
\* the run still cleans up: stop_job is attempted on each of the k-1 handles
\* already returned, and the run ends with an error.
C2_PartialPoolTornDown ==
    (pc = "done" /\ ~StartWorkersReturned /\ exitExc = "SubmissionError"
        /\ workerSubmits >= 2) =>
        /\ stopped = submitted
        /\ ExitStatus # 0

\* C3: an interrupt during any poll wait still routes to cleanup: when main
\* has ended on the interrupt, every handle a submission returned has been
\* presented to stop_job.
C3_InterruptRoutesToCleanup ==
    (pc = "done" /\ exitExc = "KeyboardInterrupt") =>
        /\ Range(submitted) \subseteq Range(stopped)
        /\ (driver = NoJob => Len(stopped) = Len(submitted))

\* C4: a driver that ran and left the running state as failed makes main end
\* with a non-zero status, after one cancellation per worker; the status is 0
\* only when the driver succeeded.
C4_DriverFailureNonZero ==
    /\ (pc = "done" /\ driverSeenLeft /\ jobs[driver] = "failed") =>
          (ExitStatus # 0 /\ Len(stopped) = Len(jobids))
    /\ (pc = "done" /\ StartWorkersReturned /\ ExitStatus = 0) =>
          (driver # NoJob /\ jobs[driver] = "finished")

\* C5: in stop_workers a failing stop_job never keeps stop_job from being
\* attempted on the remaining handles, and no error of stop_job leaves
\* stop_workers: the loop always stands right behind the last attempt, and at
\* the end every handle was attempted.
C5_StopFailuresSuppressed ==
    (calls = 1) =>
        /\ Len(stopErr) = Len(stopped)
        /\ pc = "cleanup" => stopped = SubSeq(jobids, 1, idx - 1)
        /\ pc = "done" => (stopped = jobids /\ exitExc # "CancellationError")

C5_Witness ==
    /\ pc = "done"
    /\ calls = 1
    /\ Len(jobids) >= 2
    /\ \A i \in 1..Len(stopErr) : stopErr[i] = "CancellationError"

\* C6: an error E raised by run_analysis leaves main only after stop_job was
\* attempted on every worker handle, and main then ends with that same E,
\* whatever the cancellations did.
C6_DriverErrorReraised ==
    /\ (pc = "done" /\ raised # NoExc) => (exitExc = raised /\ stopped = jobids)
    /\ (raised # NoExc /\ pc # "done") => exitExc = NoExc

C6_Witness ==
    /\ pc = "done"
    /\ raised = "SubmissionError"
    /\ exitExc = "SubmissionError"
    /\ Len(jobids) >= 1
    /\ \E i \in 1..Len(stopErr) : stopErr[i] = "CancellationError"

\* C7: start_workers returns only on a poll where every one of the N
\* submitted handles is running, and what it returns is exactly the N handles
\* of its N submissions, in submission order, pairwise distinct.
C7_StartWorkersReturnsFullSet ==
    [][ /\ (pc = "wait_workers" /\ pc' = "submit_driver") =>
            /\ \A h \in Range(submitted) : jobs[h] = "running"
            /\ Len(submitted) = config.num_workers
            /\ workerSubmits = config.num_workers
            /\ jobids' = submitted
            /\ Cardinality(Range(submitted)) = config.num_workers
        /\ (jobids' # jobids) => (pc = "wait_workers" /\ pc' = "submit_driver")
      ]_vars

C7_Witness ==
    /\ pc = "submit_driver"
    /\ Len(jobids) >= 2
    /\ startSlept

\* C8: with no workers configured, start_workers submits nothing, never
\* sleeps and returns the empty handle set; cleanup issues no cancellation.
C8_EmptyPool ==
    (config.num_workers = 0) =>
        /\ workerSubmits = 0
        /\ ~startSlept
        /\ jobids = <<>>
        /\ stopped = <<>>
        /\ (pc = "wait_workers" => WorkersReady)

C8_Witness ==
    /\ config.num_workers = 0
    /\ pc = "done"
    /\ calls = 1
    /\ exitExc = NoExc

\* C9: two stop_workers calls on the same handle set both return without
\* raising, each attempting stop_job once per handle in order, also when
\* every stop_job of the second call fails on an already cancelled job.
C9_CleanupTwice ==
    /\ exitExc = NoExc
    /\ pc = "cleanup" =>
          stopped = (IF calls = 2 THEN jobids ELSE <<>>) \o SubSeq(jobids, 1, idx - 1)
    /\ pc = "done" => (calls = 2 /\ stopped = jobids \o jobids)

C9_Witness ==
    /\ pc = "done"
    /\ calls = 2
    /\ Len(jobids) >= 2
    /\ \A i \in 1..Len(jobids) :
          /\ stopErr[i] = NoExc
          /\ stopErr[Len(jobids) + i] = "CancellationError"
          /\ jobs[jobids[i]] = "cancelled"

\* C10: on an error-free run (workers seen running, driver seen running and
\* then seen to have left the running state, as succeeded) main returns
\* normally with status 0 and exactly N cancellations, and in a run without
\* an error no cancellation is issued before the driver was seen to have left.
C10_ErrorFreeRun ==
    /\ (pc = "done" /\ seenWorkers /\ driverSeenRunning /\ driverSeenLeft
          /\ jobs[driver] = "finished") =>
          /\ ExitStatus = 0
          /\ Len(stopped) = config.num_workers
          /\ stopped = submitted
    /\ (calls >= 1 /\ raised = NoExc) => (driverSeenRunning /\ driverSeenLeft)

C10_Witness ==
    /\ pc = "done"
    /\ seenWorkers /\ driverSeenRunning /\ driverSeenLeft
    /\ jobs[driver] = "finished"
    /\ config.num_workers >= 2
    /\ \A i \in 1..Len(stopErr) : stopErr[i] = NoExc

\* Position of handle h in the submission order of start_workers (0: none).
SubmitPos(h) ==
    IF h \in Range(submitted)
    THEN CHOOSE i \in 1..Len(submitted) : submitted[i] = h
    ELSE 0

\* C11: whenever run_analysis has called submit_job for the driver, all N
\* worker submit_job calls were made before and are_running was observed
\* true on all N worker handles.
C11_DriverAfterWorkersRunning ==
    (driverSubmits >= 1 \/ driver # NoJob) =>
        /\ workerSubmits = config.num_workers
        /\ Len(submitted) = config.num_workers
        /\ seenWorkers
        /\ \A h \in Range(submitted) : h < nextId /\ (driver # NoJob => h < driver)

C11_Witness ==
    /\ driver # NoJob
    /\ config.num_workers >= 2
    /\ startSlept
    /\ pc = "wait_driver_start"

\* C12: run_analysis makes one driver submission per call and never a
\* second one; it returns normally only after the driver was observed
\* running and then observed not running, and a failed driver is not
\* submitted again.
C12_OneDriverNoRetry ==
    /\ driverSubmits <= 1
    /\ (driver # NoJob) => (driverSubmits = 1 /\ nextId = driver + 1)
    /\ (pc \in {"wait_driver_start", "wait_driver_finish"}) => driver # NoJob
    /\ (pc = "wait_driver_finish") => driverSeenRunning
    /\ driverSeenLeft => driverSeenRunning
    /\ (calls >= 1 /\ raised = NoExc) =>
          (driverSubmits = 1 /\ driverSeenRunning /\ driverSeenLeft)

C12_Witness ==
    /\ pc = "done"
    /\ raised = NoExc
    /\ driverSubmits = 1
    /\ jobs[driver] = "failed"
    /\ driverSeenLeft

\* C13: stop_job is invoked on the worker handles in the order of their
\* submission, also when earlier cancellations fail.
C13_StopInSubmissionOrder ==
    \A i, j \in 1..Len(stopped) :
        (i < j) => (/\ SubmitPos(stopped[i]) > 0
                    /\ SubmitPos(stopped[i]) < SubmitPos(stopped[j]))

C13_Witness ==
    /\ pc = "done"
    /\ Len(stopped) >= 2
    /\ stopErr[1] = "CancellationError"

\* C14: on every path of main no handle is presented to stop_job more than
\* once in a run.
C14_AtMostOneStopPerHandle ==
    /\ \A h \in Handles : StopCount(h) <= 1
    /\ calls <= 1

C14_Witness ==
    /\ pc = "done"
    /\ raised = "KeyboardInterrupt"
    /\ Len(stopped) >= 2
    /\ \E i \in 1..Len(stopErr) : stopErr[i] # NoExc

\* A submitted worker has left the running state for good while
\* start_workers has not returned.
WorkerGoneEarly ==
    /\ ~StartWorkersReturned
    /\ \E h \in Range(submitted) : jobs[h] \in {"finished", "failed"}

\* C15: once a worker has left the running state before start_workers saw
\* the full set running, the loop test of start_workers stays false from then
\* on: start_workers never returns, the driver is never submitted and no
\* cancellation is issued (the loop is left only by an exception that ends
\* main).
C15_WorkerGoneBlocksStart ==
    [][ WorkerGoneEarly =>
          /\ WorkerGoneEarly'
          /\ \E h \in Range(submitted') : jobs'[h] # "running"
          /\ pc' \in {"submit_workers", "wait_workers", "done"}
          /\ (pc' = "done") =>
                exitExc' \in {"SubmissionError", "PollError", "KeyboardInterrupt"}
          /\ jobids' = <<>>
          /\ driver' = NoJob
          /\ driverSubmits' = 0
          /\ stopped' = <<>>
          /\ calls' = 0
      ]_vars

C15_Witness ==
    /\ pc = "wait_workers"
    /\ WorkerGoneEarly
    /\ startSlept
    /\ config.num_workers >= 2
    /\ \E h \in Range(submitted) : jobs[h] = "running"

\* The driver started and left the running state before any poll of the
\* start loop of run_analysis saw it running.
DriverMissed ==
    /\ pc = "wait_driver_start"
    /\ driver # NoJob
    /\ jobs[driver] \in {"finished", "failed"}

\* C16 as stated: once the driver was missed, the start loop of run_analysis
\* never ends, so cleanup is never reached and no worker is cancelled.
C16_MissedDriverNeverCleansUp ==
    [][ DriverMissed => (pc' = "wait_driver_start" /\ calls' = 0 /\ stopped' = <<>>) ]_vars

\* C16 as amended: once the driver was missed, the start loop of
\* run_analysis never ends normally (the finish loop is never entered and
\* run_analysis never returns); it is left only when a poll raises or an
\* interrupt arrives, and then main does run the cleanup.
C16_MissedDriverLeavesOnlyByError ==
    [][ DriverMissed =>
          /\ jobs'[driver'] # "running"
          /\ ~driverSeenRunning'
          /\ \/ (pc' = "wait_driver_start" /\ calls' = 0 /\ stopped' = <<>>)
             \/ (pc' = "cleanup" /\ raised' \in {"PollError", "KeyboardInterrupt"})
      ]_vars

C16_Witness ==
    /\ pc = "cleanup"
    /\ raised = "KeyboardInterrupt"
    /\ ~driverSeenRunning
    /\ driver # NoJob
    /\ jobs[driver] = "finished"
    /\ Len(jobids) >= 1

\* C18: stop_job is called on handles returned by start_workers only, never
\* on the driver's handle: main never cancels the driver, whose state at the
\* scheduler changes by the scheduler's own steps only, so a driver pending
\* or running when run_analysis is aborted is still in the scheduler when
\* main exits.
C18_DriverNeverStopped ==
    [][ /\ Range(stopped') \subseteq Range(jobids')
        /\ (driver' # NoJob) =>
              (driver' \notin Range(stopped') /\ jobs'[driver'] # "cancelled")
        /\ (driver # NoJob /\ jobs'[driver] # jobs[driver]) =>
              (pc' = pc /\ stopped' = stopped /\ idx' = idx)
      ]_vars

C18_Witness ==
    /\ pc = "done"
    /\ raised \in {"PollError", "KeyboardInterrupt"}
    /\ driver # NoJob
    /\ jobs[driver] \in {"pending", "running"}
    /\ Len(stopped) >= 2
    /\ \A i \in 1..Len(stopErr) : stopErr[i] = NoExc

----------------------------------------------------------------------------
\* A run under a fair scheduler on which no scheduler call raises and no
\* interrupt arrives: every submitted job is eventually started, workers
\* keep running until cancelled, and the driver leaves the running state
\* only after run_analysis has seen it running.

SubmitWorkerOk == SubmitWorker /\ pc' # "done"

PollWorkersOk == PollWorkers /\ pc' # "done"

SubmitDriverOk == SubmitDriver /\ pc' # "cleanup"

PollDriverStartOk == PollDriverStart /\ pc' # "cleanup"

PollDriverFinishOk == PollDriverFinish /\ raised' = NoExc

StopJobOk == StopJob /\ stopErr'[Len(stopErr')] = NoExc

DriverExit ==
    /\ driver # NoJob
    /\ driverSeenRunning
    /\ JobExit
    /\ jobs'[driver] # jobs[driver]

NextFair ==
    \/ MainStart
    \/ SubmitWorkerOk
    \/ PollWorkersOk
    \/ SubmitDriverOk
    \/ PollDriverStartOk
    \/ PollDriverFinishOk
    \/ StopJobOk
    \/ StopWorkersReturn
    \/ JobStart
    \/ DriverExit

\* The single thread of control always takes its next step; the scheduler
\* eventually starts every pending job and eventually ends the driver.
SpecFair ==
    /\ Init
    /\ [][NextFair]_vars
    /\ WF_vars(MainStart)
    /\ WF_vars(SubmitWorkerOk)
    /\ WF_vars(PollWorkersOk)
    /\ WF_vars(SubmitDriverOk)
    /\ WF_vars(PollDriverStartOk)
    /\ WF_vars(PollDriverFinishOk)
    /\ WF_vars(StopJobOk)
    /\ WF_vars(StopWorkersReturn)
    /\ WF_vars(JobStart)
    /\ WF_vars(DriverExit)

\* C17: under a fair scheduler on which nothing raises, main eventually
\* terminates, and it has then presented every worker handle to stop_job.
C17_FairRunTerminatesCleaned ==
    <>[](/\ pc = "done"
         /\ Range(submitted) \subseteq Range(stopped)
         /\ Len(stopped) = Len(submitted))

C17_Witness ==
    /\ pc = "done"
    /\ exitExc = NoExc
    /\ config.num_workers >= 2
    /\ startSlept
    /\ stopped = submitted
    /\ \A h \in Range(submitted) : jobs[h] = "cancelled"

----------------------------------------------------------------------------
\* bcbio/pipeline/toplevel.py: analyze_and_upload

\* Every variable of the orchestrator script.
orchVars == <<config, pc, jobs, nextId, submitted, jobids, driver, idx, raised,
              exitExc, stopped, stopErr, workerSubmits, seenWorkers, startSlept,
              driverSeenRunning, driverSeenLeft, calls, driverSubmits>>

NoYaml == "None"

\* The order of the three statements of analyze_and_upload (lines 31-34).
StageOrder == <<"copy", "analysis", "upload">>

\* _get_run_yaml, lines 94-104.
_get_run_yaml ==
    LET run_yaml == IF topIn.has_run_yaml THEN "remote_info.run_yaml"
                                          ELSE "store_dir/run_info.yaml"
    IN  IF topIn.yaml_exists THEN run_yaml ELSE NoYaml

\* _run_analysis, lines 82-86: the program of the analysis stage.
AnalysisProg ==
    IF topIn.num_cores = "messaging"
    THEN (IF topIn.has_dist_prog THEN "distributed_process_program"
                                 ELSE "distributed_nextgen_pipeline.py")
    ELSE "process_program"

\* subprocess.check_call (lines 90, 116): the exception for exit status rc.
check_callMutant(rc) == NoExc
check_call(rc) == IF rc = 0 THEN NoExc ELSE "CalledProcessError"

\* Lines 88-89 and 114-115: the run yaml is appended when there is one.
WithYaml(cl) == IF _get_run_yaml # NoYaml THEN Append(cl, _get_run_yaml) ELSE cl

ExitCodes == {0, 1}

InitTop ==
    /\ topIn \in [num_cores : {"messaging", "1"},
                  has_fc_dir : BOOLEAN,
                  fc_exists : BOOLEAN,
                  has_dist_prog : BOOLEAN,
                  has_run_yaml : BOOLEAN,
                  yaml_exists : BOOLEAN]
    /\ tpc = "start"
    /\ stages = <<>>
    /\ launched = <<>>
    /\ topExc = NoExc
    /\ config = [num_cores |-> topIn.num_cores, cluster_platform |-> "lsf",
                 num_workers |-> 0]
    /\ pc = "main"
    /\ jobs = [h \in Handles |-> "unsubmitted"]
    /\ nextId = 1
    /\ submitted = <<>>
    /\ jobids = <<>>
    /\ driver = NoJob
    /\ idx = 1
    /\ raised = NoExc
    /\ exitExc = NoExc
    /\ stopped = <<>>
    /\ stopErr = <<>>
    /\ workerSubmits = 0
    /\ seenWorkers = FALSE
    /\ startSlept = FALSE
    /\ driverSeenRunning = FALSE
    /\ driverSeenLeft = FALSE
    /\ calls = 0
    /\ driverSubmits = 0

\* A stage ended with exception e: go on to next, or leave analyze_and_upload.
EndStage(name, e, next) ==
    /\ stages' = Append(stages, [name |-> name, exc |-> e])
    /\ tpc' = IF e = NoExc THEN next ELSE "failed"
    /\ topExc' = e

\* _copy_from_sequencer, lines 39-58 (called at line 31).
CopyFromSequencer ==
    /\ tpc = "start"
    /\ \/ /\ topIn.has_fc_dir
          /\ EndStage("copy", IF topIn.fc_exists THEN NoExc ELSE "AssertionError",
                      "copied")
       \/ /\ ~topIn.has_fc_dir
          /\ \E e \in {NoExc, "CopyError"} : EndStage("copy", e, "copied")
    /\ UNCHANGED <<topIn, launched, orchVars>>

\* _run_analysis, lines 73-91 (called at line 32).
RunAnalysis ==
    /\ tpc = "copied"
    /\ \E rc \in ExitCodes :
          /\ launched' = Append(launched,
                [cl |-> WithYaml(<<AnalysisProg, "config_file", "fc_dir">>), rc |-> rc])
          /\ EndStage("analysis", check_call(rc), "analysed")
    /\ UNCHANGED <<topIn, orchVars>>

\* _upload_to_galaxy, lines 107-116 (called at lines 33-34).
UploadToGalaxy ==
    /\ tpc = "analysed"
    /\ \E rc \in ExitCodes :
          /\ launched' = Append(launched,
                [cl |-> WithYaml(<<"upload_program", "config_file", "fc_dir",
                                   "analysis_dir">>), rc |-> rc])
          /\ EndStage("upload", check_call(rc), "uploaded")
    /\ UNCHANGED <<topIn, orchVars>>

NextTop ==
    \/ CopyFromSequencer
    \/ RunAnalysis
    \/ UploadToGalaxy

SpecTop == InitTop /\ [][NextTop]_vars

DistributedPrograms == {"distributed_process_program", "distributed_nextgen_pipeline.py"}

\* C19: analyze_and_upload enters its stages in the order copy, analysis,
\* upload, each only after the one before ended without an exception; the
\* upload program is never launched after a non-zero analysis exit or a
\* failed copy; and the analysis stage launches the distributed pipeline
\* program exactly when num_cores is "messaging", process_program otherwise.
C19_StagesInOrder ==
    /\ Len(stages) <= 3
    /\ \A i \in 1..Len(stages) :
          /\ stages[i].name = StageOrder[i]
          /\ (i > 1) => stages[i - 1].exc = NoExc
    /\ Len(launched) = (IF Len(stages) = 0 THEN 0 ELSE Len(stages) - 1)
    /\ (Len(launched) >= 1) =>
          /\ (launched[1].cl[1] \in DistributedPrograms) <=> (topIn.num_cores = "messaging")
          /\ (topIn.num_cores # "messaging") => launched[1].cl[1] = "process_program"
    /\ (Len(launched) >= 2) =>
          /\ launched[2].cl[1] = "upload_program"
          /\ launched[1].rc = 0
          /\ stages[1].exc = NoExc

C19_Witness ==
    /\ tpc = "uploaded"
    /\ topIn.num_cores = "messaging"
    /\ ~topIn.has_dist_prog
    /\ launched[1].cl = <<"distributed_nextgen_pipeline.py", "config_file", "fc_dir",
                          "store_dir/run_info.yaml">>
    /\ Len(launched) = 2

====
